---- MODULE Spec2Model ----
(***************************************************************************)
(* GitInspect: the AI analysis service (services/AIService.js), the GitHub *)
(* metadata client (services/GitHubService.js) and the controller that     *)
(* composes them (controllers/repoController.js).                          *)
(*                                                                         *)
(* Strings are modelled as sequences of lexemes: a text is a sequence over *)
(* Alphabet, a message is a one-element sequence holding the literal, and  *)
(* string concatenation is \o.  An optional value (null or a value) is a   *)
(* sequence of length 0 or 1.                                              *)
(***************************************************************************)
EXTENDS Integers, Sequences, FiniteSets, TLC

\* ------------------------------------------------------------------ bounds
MaxRetriesBound == 3
MaxBodyLen == 2
MaxItems == 4
MaxLen == 3
MaxLines == 5
MaxPromptCalls == 2

\* ------------------------------------------------- program constants
RETRY_DELAY == 1000
TIMEOUT == 15000

\* ------------------------------------------------------------ lexemes
\* [fence] stands for the three-backtick delimiter of a fenced block.
HF == "[fence]html"
TF == "[fence]text"
FENCE == "[fence]"
DO == "<div class=\"architecture-diagram\">"
DC == "</div>"
DI == "<div>"
RW == "Recommandations"
REN == "Recommendations"
NL == "\n"
SP == " "
DASH == "-"
CH == "a"

Alphabet == {HF, TF, FENCE, DO, DC, RW, REN, NL, SP, DASH, CH}

Whitespace == {NL, SP}


None == <<>>
Some(x) == <<x>>

\* ----------------------------------------------------- string helpers
\* First index i >= from with s[i] in T, or 0.
FirstIn(s, T, from) ==
  LET I == {i \in from..Len(s) : s[i] \in T}
  IN IF I = {} THEN 0 ELSE CHOOSE i \in I : \A j \in I : i <= j

\* String.prototype.trim
Trim(s) ==
  LET I == {i \in 1..Len(s) : s[i] \notin Whitespace}
  IN IF I = {} THEN <<>>
     ELSE SubSeq(s, CHOOSE i \in I : \A j \in I : i <= j,
                    CHOOSE i \in I : \A j \in I : i >= j)

\* String.prototype.split on the newline
RECURSIVE Split(_)
Split(s) ==
  LET n == FirstIn(s, {NL}, 1)
  IN IF n = 0 THEN <<s>>
     ELSE <<SubSeq(s, 1, n - 1)>> \o Split(SubSeq(s, n + 1, Len(s)))

\* Array.prototype.filter(r => r.trim().length > 0)
RECURSIVE FilterNonBlank(_)
FilterNonBlank(ls) ==
  IF ls = <<>> THEN <<>>
  ELSE IF Trim(Head(ls)) = <<>> THEN FilterNonBlank(Tail(ls))
       ELSE <<Head(ls)>> \o FilterNonBlank(Tail(ls))

\* r.replace(/^- /, empty).trim()
StripMarker(r) ==
  Trim(IF Len(r) >= 2 /\ r[1] = DASH /\ r[2] = SP THEN SubSeq(r, 3, Len(r)) ELSE r)

\* Slice3 without the cap.
SliceAll(ls) == ls

\* Array.prototype.slice(0, 3)
Slice3(ls) == SubSeq(ls, 1, IF Len(ls) < 3 THEN Len(ls) ELSE 3)

\* The capture group of /[fence]<tag>([\s\S]*?)[fence]/ on its first match,
\* or None.  Every lexeme that begins with the delimiter ends the lazy run.
FencedInterior(content, tag) ==
  LET i == FirstIn(content, {tag}, 1)
      j == IF i = 0 THEN 0 ELSE FirstIn(content, {HF, TF, FENCE}, i + 1)
  IN IF i = 0 \/ j = 0 THEN None ELSE Some(SubSeq(content, i + 1, j - 1))

\* ----------------------------------------------------- ResponseExtractor
extractHtmlContent(content) ==
  LET htmlMatch == FencedInterior(content, HF)
      i == FirstIn(content, {DO}, 1)
      j == IF i = 0 THEN 0 ELSE FirstIn(content, {DC}, i + 1)
  IN IF htmlMatch = None
       THEN (IF i = 0 \/ j = 0 THEN None ELSE Some(SubSeq(content, i, j)))
       ELSE Some(Trim(htmlMatch[1]))

\* extractTextSummary returning the interior of the text block untrimmed.
extractTextSummaryNoTrim(content) ==
  LET match == FencedInterior(content, TF)
      firstLine == Split(content)[1]
  IN IF match # None THEN match[1]
     ELSE IF firstLine # <<>> THEN firstLine ELSE <<"Technical summary">>

extractTextSummary(content) ==
  LET match == FencedInterior(content, TF)
      firstLine == Split(content)[1]
  IN IF match # None THEN Trim(match[1])
     ELSE IF firstLine # <<>> THEN firstLine ELSE <<"Technical summary">>

getDefaultRecommendations ==
  << <<"Documentation: Ajouter des commentaires pour les fonctions principales">>,
     <<"Tests: Implémenter des tests unitaires pour les modules critiques">>,
     <<"Optimisation: Analyser les performances des composants clés">> >>

\* The capture group running to the end of the input, blank line or not.
RecsGroupToEnd(content) ==
  LET i == FirstIn(content, {RW}, 1)
      nl == FirstIn(content, {NL}, i)
      e == IF nl = 0 THEN Len(content) + 1 ELSE nl
  IN IF i = 0 THEN None ELSE Some(SubSeq(content, e, Len(content)))

\* /Recommandations?.*([\s\S]*?)(?=\n\n|$)/i : the heading word, the rest of
\* its line, then the shortest run that ends before a blank line or at the
\* end of the input.
RecsGroup(content) ==
  LET i == FirstIn(content, {RW}, 1)
      nl == FirstIn(content, {NL}, i)
      e == IF nl = 0 THEN Len(content) + 1 ELSE nl
      P == {p \in e..Len(content) :
              p < Len(content) /\ content[p] = NL /\ content[p + 1] = NL}
      stop == IF P = {} THEN Len(content) + 1
              ELSE CHOOSE p \in P : \A q \in P : p <= q
  IN IF i = 0 THEN None ELSE Some(SubSeq(content, e, stop - 1))

MapStripMarker(ls) == [k \in 1..Len(ls) |-> StripMarker(ls[k])]

extractRecommendations(content) ==
  LET recs == RecsGroup(content)
  IN IF recs # None
       THEN Slice3(MapStripMarker(FilterNonBlank(Split(recs[1]))))
       ELSE getDefaultRecommendations

generateFallbackDiagram(message) ==
  <<"<div class=\"diagram-fallback\">">> \o message \o <<"</div>">>

\* Opening tag of the decorative container of wrapDiagram.
WrapOpen == "<div class=\"architecture-diagram\" style>"

wrapDiagram(content) ==
  IF content = None \/ content[1] = <<>>
    THEN generateFallbackDiagram(<<"No architecture diagram generated">>)
    ELSE <<WrapOpen>> \o content[1] \o <<"</div>">>

\* ------------------------------------------------------- error messages
ErrNoKey == <<"DeepSeek API key not configured">>
ErrInvalidRepo == <<"Invalid repository information">>
ErrStatus(status) == <<"API request failed with status ", ToString(status)>>
ErrTransport == <<"request to the completion endpoint failed">>
ErrAborted == <<"The user aborted a request.">>
ErrInvalidFormat == <<"Invalid AI response format">>
ErrInvalidJson == <<"invalid json response body">>
ErrNullBody == <<"Cannot read properties of null (reading choices)">>
ErrNotString == <<"content.match is not a function">>

ErrNotFound == <<"Dépôt non trouvé">>
ErrRateLimit == <<"Limite de requêtes GitHub atteinte">>
ErrGitHub == <<"Erreur de communication avec GitHub">>

\* ------------------------------------------------- AnalysisOrchestrator
getFallbackRecommendations ==
  << <<"Verify API configuration">>,
     <<"Check repository accessibility">>,
     <<"Retry analysis later">> >>

\* generateFallbackResponse handing out the default recommendations.
generateFallbackResponseDefaults(error) ==
  [summary |-> <<"Analysis failed: ">> \o error,
   htmlSchema |-> generateFallbackDiagram(error),
   recommendations |-> getDefaultRecommendations,
   diagramSource |-> FALSE]

generateFallbackResponse(error) ==
  [summary |-> <<"Analysis failed: ">> \o error,
   htmlSchema |-> generateFallbackDiagram(error),
   recommendations |-> getFallbackRecommendations,
   diagramSource |-> FALSE]

\* The body of a 2xx response after response.json(): kind "content" carries
\* choices[0].message.content as a string (possibly empty); "noChoices" has no
\* choices array; "null" is the JSON value null; "notString" carries a truthy
\* content that is not a string.
Body(kind, content) == [kind |-> kind, content |-> content]

\* The error parseAIResponse throws on data, or None.
parseAIResponseError(data) ==
  CASE data.kind = "null" -> Some(ErrNullBody)
    [] data.kind = "noChoices" -> Some(ErrInvalidFormat)
    [] data.kind = "content" /\ data.content = <<>> -> Some(ErrInvalidFormat)
    [] data.kind = "notString" -> Some(ErrNotString)
    [] OTHER -> None

parseAIResponse(data) ==
  [rawContent |-> data.content,
   diagram |-> extractHtmlContent(data.content),
   summary |-> extractTextSummary(data.content)]

\* formatAnalysisResults extracting recommendations only beside a diagram.
formatAnalysisResultsDependent(analysis) ==
  [summary |-> analysis.summary,
   htmlSchema |-> wrapDiagram(analysis.diagram),
   recommendations |->
     IF analysis.diagram = None THEN <<>>
     ELSE extractRecommendations(analysis.rawContent),
   diagramSource |-> TRUE,
   rawAnalysis |-> analysis.rawContent]

formatAnalysisResults(analysis) ==
  [summary |-> analysis.summary,
   htmlSchema |-> wrapDiagram(analysis.diagram),
   recommendations |-> extractRecommendations(analysis.rawContent),
   diagramSource |-> TRUE,
   rawAnalysis |-> analysis.rawContent]

\* ------------------------------------------------ RepositoryMetadataClient
\* A field holds a string, or <<>> for null / undefined.
formatRepoData(data) ==
  [type |-> "object",
   name |-> data.name,
   owner |-> data.owner,
   description |-> data.description,
   url |-> data.html_url,
   language |-> data.language]

\* A handler that does not tell quota exhaustion from other failures.
handleGitHubErrorNoRateLimit(status) ==
  IF status = 404 THEN ErrNotFound
  ELSE ErrGitHub

handleGitHubError(status) ==
  IF status = 404 THEN ErrNotFound
  ELSE IF status = 403 THEN ErrRateLimit
  ELSE ErrGitHub

\* ------------------------------------------------------------ inputs
NoKey == ""
ApiKeys == {NoKey, "sk-key"}

\* Upstream repository documents; hasOwner = FALSE is a document without the
\* owner object, on which formatRepoData throws a TypeError.
GitHubData ==
  {[name |-> <<"express">>, hasOwner |-> o, owner |-> <<"expressjs">>,
    description |-> d, html_url |-> <<"https://github.com/expressjs/express">>,
    language |-> <<"JavaScript">>] :
      o \in BOOLEAN, d \in {<<>>, <<"Fast web framework">>}}

\* Upstream failures of the metadata request; 0 is a failure without a
\* response (timeout, connection error).
GitHubFailures == {404, 403, 500, 0}

\* Arguments of a direct call of analyzeRepository.
MetadataArgs ==
  {[type |-> "null"], [type |-> "string"],
   [type |-> "object", name |-> <<"express">>,
    html_url |-> <<"https://github.com/expressjs/express">>]}

Statuses == {200, 429, 500}

Texts(n) == UNION {[1..k -> Alphabet] : k \in 0..n}

RECURSIVE Repeat(_, _)
Repeat(s, k) == IF k = 0 THEN <<>> ELSE s \o Repeat(s, k - 1)

\* A heading line followed by k list items.
HeadingWithItems(k) == <<RW>> \o Repeat(<<NL, DASH, SP, CH>>, k)

\* Example scenario A: one fenced html block and one fenced text block.
ScenarioA == <<HF, NL, CH, NL, FENCE, SP, NL, TF, NL, CH, NL, FENCE>>

ResponseTexts ==
  Texts(MaxBodyLen) \cup {HeadingWithItems(k) : k \in 0..MaxItems} \cup {ScenarioA}

ResponseBodies ==
  {Body("content", t) : t \in ResponseTexts}
    \cup {Body("noChoices", <<>>), Body("null", <<>>), Body("notString", <<>>)}

\* -------------------------------------------------------------- state
VARIABLES
  apiKey,          \* this.apiKey
  maxRetries,      \* this.config.maxRetries
  pc,              \* position of the inbound call
  caller,          \* "controller" (inspectRepository) or "direct"
  repoInfo,        \* the metadata handed to analyzeRepository
  githubRequests,  \* metadata requests issued
  requests,        \* completion requests issued
  responses2xx,    \* completion responses received with an ok status
  attempt,         \* fetchWithRetry's attempt parameter
  timers,          \* attempts whose abort timer is armed
  inflight,        \* attempts whose request is outstanding
  sleeps,          \* the backoff delays awaited so far
  lastError,       \* error of fetchWithRetry's catch block, last time it ran
  caught,          \* error of analyzeRepository's catch block (None: not run)
  controllerError, \* error of inspectRepository's catch block (None: not run)
  data,            \* the last body response.json() resolved with (None before)
  result,          \* what analyzeRepository returned (None before)
  rendered,        \* the locals of each res.render call, in order
  rawText,         \* input of the extraction specification
  parsed,          \* parseAIResponse's value on rawText (None before)
  formatted,       \* formatAnalysisResults' value on it (None before)
  githubStatus,    \* status of the metadata response (0: none; None before)
  promptLog,       \* the prompts built so far, each with its metadata
  inv              \* the concurrent invocations of analyzeRepository

vars == <<apiKey, maxRetries, pc, caller, repoInfo, githubRequests, requests,
          responses2xx, attempt, timers, inflight, sleeps, lastError, caught,
          controllerError, data, result, rendered, rawText, parsed, formatted,
          githubStatus, promptLog, inv>>

config == <<apiKey, maxRetries>>
extraction == <<rawText, parsed, formatted>>
outcome == <<result, caught>>
page == <<rendered, controllerError>>
aside == <<promptLog, inv>>

Init ==
  /\ apiKey \in ApiKeys
  /\ maxRetries \in 1..MaxRetriesBound
  /\ pc = "idle"
  /\ caller = "none"
  /\ repoInfo = [type |-> "undefined"]
  /\ githubRequests = 0
  /\ requests = 0
  /\ responses2xx = 0
  /\ attempt = 0
  /\ timers = {}
  /\ inflight = {}
  /\ sleeps = <<>>
  /\ lastError = None
  /\ caught = None
  /\ controllerError = None
  /\ data = None
  /\ result = None
  /\ rendered = None
  /\ rawText = <<>>
  /\ parsed = None
  /\ formatted = None
  /\ githubStatus = None
  /\ promptLog = <<>>
  /\ inv = <<>>

\* ------------------------------------------------------ analyzeRepository
\* analyzeRepository's catch block rethrowing: the returned promise rejects.
AnalyzeCatchRethrow(error) ==
  /\ caught' = Some(error)
  /\ result' = result
  /\ pc' = "rejected"

\* The catch block of analyzeRepository.
AnalyzeCatch(error) ==
  /\ caught' = Some(error)
  /\ result' = Some(generateFallbackResponse(error))
  /\ pc' = "analyzed"

\* One attempt of fetchWithRetry up to its await of fetch: arm the abort
\* timer and issue the request.
StartAttempt(n) ==
  /\ attempt' = n
  /\ timers' = timers \cup {n}
  /\ inflight' = inflight \cup {n}
  /\ requests' = requests + 1
  /\ pc' = "awaitFetch"

\* analyzeRepository without validateApiKey.
AnalyzeBeginNoKeyCheck(meta) ==
  IF meta.type # "object"
    THEN /\ AnalyzeCatch(ErrInvalidRepo)
         /\ UNCHANGED <<attempt, timers, inflight, requests>>
  ELSE /\ StartAttempt(1)
       /\ UNCHANGED outcome

\* analyzeRepository from its call to its first await.
AnalyzeBegin(meta) ==
  IF apiKey = NoKey
    THEN /\ AnalyzeCatch(ErrNoKey)
         /\ UNCHANGED <<attempt, timers, inflight, requests>>
  ELSE IF meta.type # "object"
    THEN /\ AnalyzeCatch(ErrInvalidRepo)
         /\ UNCHANGED <<attempt, timers, inflight, requests>>
  ELSE /\ StartAttempt(1)
       /\ UNCHANGED outcome

\* fetchWithRetry's catch block comparing with > instead of >=.
RetryCatchOffByOne(error) ==
  IF attempt > maxRetries
    THEN /\ lastError' = Some(error)
         /\ AnalyzeCatch(error)
         /\ UNCHANGED sleeps
    ELSE /\ lastError' = Some(error)
         /\ sleeps' = Append(sleeps, RETRY_DELAY * attempt)
         /\ pc' = "sleeping"
         /\ UNCHANGED outcome

\* fetchWithRetry's catch block sleeping the base delay before every retry.
RetryCatchConstantDelay(error) ==
  IF attempt >= maxRetries
    THEN /\ lastError' = Some(error)
         /\ AnalyzeCatch(error)
         /\ UNCHANGED sleeps
    ELSE /\ lastError' = Some(error)
         /\ sleeps' = Append(sleeps, RETRY_DELAY)
         /\ pc' = "sleeping"
         /\ UNCHANGED outcome

\* The catch block of fetchWithRetry: rethrow on the last attempt (the error
\* reaches analyzeRepository's catch), else start the backoff sleep.
RetryCatch(error) ==
  IF attempt >= maxRetries
    THEN /\ lastError' = Some(error)
         /\ AnalyzeCatch(error)
         /\ UNCHANGED sleeps
    ELSE /\ lastError' = Some(error)
         /\ sleeps' = Append(sleeps, RETRY_DELAY * attempt)
         /\ pc' = "sleeping"
         /\ UNCHANGED outcome

CallAnalyze ==
  /\ pc = "idle"
  /\ \E meta \in MetadataArgs :
       /\ repoInfo' = meta
       /\ AnalyzeBegin(meta)
  /\ caller' = "direct"
  /\ UNCHANGED <<config, githubRequests, responses2xx, sleeps, lastError, data,
                 page, extraction, githubStatus, aside>>

\* fetch resolves with a response: the timer is cleared, then the status is
\* checked.
FetchResolve ==
  /\ pc = "awaitFetch"
  /\ \E status \in Statuses :
       /\ timers' = timers \ {attempt}
       /\ IF status >= 200 /\ status <= 299
            THEN /\ pc' = "awaitBody"
                 /\ responses2xx' = responses2xx + 1
                 /\ UNCHANGED <<inflight, sleeps, lastError, outcome>>
            ELSE /\ inflight' = inflight \ {attempt}
                 /\ RetryCatch(ErrStatus(status))
                 /\ UNCHANGED responses2xx
  /\ UNCHANGED <<config, caller, repoInfo, githubRequests, requests, attempt,
                 data, page, extraction, githubStatus, aside>>

\* fetch rejects with a transport error: control jumps to the catch block,
\* past clearTimeout.
FetchReject ==
  /\ pc = "awaitFetch"
  /\ inflight' = inflight \ {attempt}
  /\ RetryCatch(ErrTransport)
  /\ UNCHANGED <<config, caller, repoInfo, githubRequests, requests,
                 responses2xx, attempt, timers, data, page, extraction, githubStatus, aside>>

\* An armed abort timer fires: controller.abort().  It rejects the fetch of
\* its own attempt when that is still awaited, and does nothing otherwise.
TimerFire ==
  /\ \E n \in timers :
       /\ timers' = timers \ {n}
       /\ IF pc = "awaitFetch" /\ attempt = n
            THEN /\ inflight' = inflight \ {n}
                 /\ RetryCatch(ErrAborted)
            ELSE UNCHANGED <<inflight, sleeps, lastError, outcome, pc>>
  /\ UNCHANGED <<config, caller, repoInfo, githubRequests, requests,
                 responses2xx, attempt, data, page, extraction, githubStatus, aside>>

\* BodyResolve with parseAIResponse called outside the try block: its error
\* is not retried.
BodyResolveParseOutsideTry ==
  /\ pc = "awaitBody"
  /\ \E body \in ResponseBodies :
       /\ data' = Some(body)
       /\ IF parseAIResponseError(body) # None
            THEN /\ lastError' = lastError
                 /\ AnalyzeCatch(parseAIResponseError(body)[1])
                 /\ UNCHANGED sleeps
            ELSE /\ result' = Some(formatAnalysisResults(parseAIResponse(body)))
                 /\ pc' = "analyzed"
                 /\ UNCHANGED <<sleeps, lastError, caught>>
  /\ inflight' = inflight \ {attempt}
  /\ UNCHANGED <<config, caller, repoInfo, githubRequests, requests,
                 responses2xx, attempt, timers, page, extraction, githubStatus, aside>>

\* BodyResolve with the recursive call's value dropped (no return before
\* this.fetchWithRetry(prompt, attempt + 1)): a retried sequence resolves
\* with undefined and formatAnalysisResults throws.
BodyResolveLostResult ==
  /\ pc = "awaitBody"
  /\ \E body \in ResponseBodies :
       /\ data' = Some(body)
       /\ IF parseAIResponseError(body) # None
            THEN RetryCatch(parseAIResponseError(body)[1])
            ELSE IF attempt > 1
              THEN /\ AnalyzeCatch(<<"Cannot read properties of undefined (reading summary)">>)
                   /\ UNCHANGED <<sleeps, lastError>>
              ELSE /\ result' = Some(formatAnalysisResults(parseAIResponse(body)))
                   /\ pc' = "analyzed"
                   /\ UNCHANGED <<sleeps, lastError, caught>>
  /\ inflight' = inflight \ {attempt}
  /\ UNCHANGED <<config, caller, repoInfo, githubRequests, requests,
                 responses2xx, attempt, timers, page, extraction, githubStatus, aside>>

\* response.json() resolves: parseAIResponse, and on success the return
\* through fetchWithRetry into formatAnalysisResults.
BodyResolve ==
  /\ pc = "awaitBody"
  /\ \E body \in ResponseBodies :
       /\ data' = Some(body)
       /\ IF parseAIResponseError(body) # None
            THEN RetryCatch(parseAIResponseError(body)[1])
            ELSE /\ result' = Some(formatAnalysisResults(parseAIResponse(body)))
                 /\ pc' = "analyzed"
                 /\ UNCHANGED <<sleeps, lastError, caught>>
  /\ inflight' = inflight \ {attempt}
  /\ UNCHANGED <<config, caller, repoInfo, githubRequests, requests,
                 responses2xx, attempt, timers, page, extraction, githubStatus, aside>>

\* response.json() rejects: the body is not JSON.
BodyReject ==
  /\ pc = "awaitBody"
  /\ inflight' = inflight \ {attempt}
  /\ RetryCatch(ErrInvalidJson)
  /\ UNCHANGED <<config, caller, repoInfo, githubRequests, requests,
                 responses2xx, attempt, timers, data, page, extraction, githubStatus, aside>>

\* The backoff sleep ends: fetchWithRetry(prompt, attempt + 1).
SleepDone ==
  /\ pc = "sleeping"
  /\ StartAttempt(attempt + 1)
  /\ UNCHANGED <<config, caller, repoInfo, githubRequests, responses2xx,
                 sleeps, lastError, data, outcome, page, extraction, githubStatus, aside>>

\* The direct caller receives the result.
ReturnToCaller ==
  /\ pc = "analyzed"
  /\ caller = "direct"
  /\ pc' = "done"
  /\ UNCHANGED <<config, caller, repoInfo, githubRequests, requests,
                 responses2xx, attempt, timers, inflight, sleeps, lastError,
                 data, outcome, page, extraction, githubStatus, aside>>

\* ------------------------------------------------------ inspectRepository
\* The controller's catch block handing out the orchestrator's fallback.
ControllerFallbackAsOrchestrator(error) ==
  [title |-> <<"Erreur d analyse">>,
   analysis |-> generateFallbackResponse(error)]

ControllerFallback(error) ==
  [title |-> <<"Erreur d analyse">>,
   analysis |->
     [summary |-> <<"Une erreur est survenue">>,
      htmlSchema |-> generateFallbackDiagram(error),
      recommendations |->
        << <<"Actualiser la page">>,
           <<"Vérifier le nom du dépôt">>,
           <<"Contacter le support">> >>]]

ControllerResults(info, analysis) ==
  [title |-> <<"GitInspect - ">> \o info.name,
   analysis |->
     [analysis EXCEPT !.htmlSchema =
        IF analysis.htmlSchema # <<>> THEN analysis.htmlSchema
        ELSE generateFallbackDiagram(<<"No diagram generated">>)]]

\* A catch block of inspectRepository that renders nothing.
ControllerCatchNoRender(error) ==
  /\ controllerError' = Some(error)
  /\ rendered' = rendered
  /\ pc' = "done"

\* The catch block of inspectRepository.
ControllerCatch(error) ==
  /\ controllerError' = Some(error)
  /\ rendered' = Append(rendered, ControllerFallback(error))
  /\ pc' = "done"

InspectRepository ==
  /\ pc = "idle"
  /\ caller' = "controller"
  /\ githubRequests' = githubRequests + 1
  /\ pc' = "awaitGitHub"
  /\ UNCHANGED <<config, repoInfo, requests, responses2xx, attempt, timers,
                 inflight, sleeps, lastError, data, outcome, page, extraction, githubStatus, aside>>

\* getRepoInfo's request resolves; formatRepoData, then analyzeRepository is
\* entered.
GitHubResolve ==
  /\ pc = "awaitGitHub"
  /\ githubStatus' = Some(200)
  /\ \E doc \in GitHubData :
       IF doc.hasOwner
         THEN /\ repoInfo' = formatRepoData(doc)
              /\ AnalyzeBegin(formatRepoData(doc))
              /\ UNCHANGED page
         ELSE /\ ControllerCatch(handleGitHubError(0))
              /\ UNCHANGED <<repoInfo, attempt, timers, inflight, requests, outcome>>
  /\ UNCHANGED <<config, caller, githubRequests, responses2xx, sleeps, lastError,
                 data, extraction, aside>>

\* getRepoInfo's request fails; handleGitHubError's error reaches the
\* controller's catch block.
GitHubReject ==
  /\ pc = "awaitGitHub"
  /\ \E status \in GitHubFailures :
       /\ githubStatus' = Some(status)
       /\ ControllerCatch(handleGitHubError(status))
  /\ UNCHANGED <<config, caller, repoInfo, githubRequests, requests,
                 responses2xx, attempt, timers, inflight, sleeps, lastError,
                 data, outcome, extraction, aside>>

\* analyzeRepository has returned to the controller: res.render.
ControllerRender ==
  /\ pc = "analyzed"
  /\ caller = "controller"
  /\ rendered' = Append(rendered, ControllerResults(repoInfo, result[1]))
  /\ pc' = "done"
  /\ UNCHANGED <<config, caller, repoInfo, githubRequests, requests,
                 responses2xx, attempt, timers, inflight, sleeps, lastError,
                 data, outcome, controllerError, extraction, githubStatus, aside>>

Next ==
  \/ CallAnalyze
  \/ InspectRepository
  \/ GitHubResolve
  \/ GitHubReject
  \/ FetchResolve
  \/ FetchReject
  \/ TimerFire
  \/ BodyResolve
  \/ BodyReject
  \/ SleepDone
  \/ ReturnToCaller
  \/ ControllerRender

Spec == Init /\ [][Next]_vars

\* What the runtime guarantees whatever the upstream does: an armed timer
\* fires, a backoff sleep ends, and a return is followed by the render.  The
\* upstream answering (fetch or body settling) is not guaranteed.
Fairness ==
  /\ WF_vars(TimerFire)
  /\ WF_vars(SleepDone)
  /\ WF_vars(ControllerRender)

SpecFair == Spec /\ Fairness

\* --------------------------------------------- the extraction on its own
\* ResponseExtractor is a pure function of rawText: this specification draws
\* rawText from bounded sets and applies parseAIResponse's extractions, then
\* formatAnalysisResults.
LineShapes ==
  {<<>>, <<CH>>, <<DASH, SP, CH>>, <<DASH, SP>>, <<SP>>, <<RW>>, <<REN>>}

RECURSIVE Join(_)
Join(ls) ==
  IF Len(ls) = 0 THEN <<>>
  ELSE IF Len(ls) = 1 THEN ls[1]
  ELSE ls[1] \o <<NL>> \o Join(Tail(ls))

LineTexts(n) == {Join(ls) : ls \in UNION {[1..k -> LineShapes] : k \in 1..n}}

\* A heading followed by an item with a trailing space.
TrailingSpaceItem == <<RW, NL, DASH, SP, CH, SP>>

\* An architecture-diagram element that holds a nested div, and no fence.
NestedDiagram == <<DO, DI, CH, DC, DC>>

ExtractionTexts ==
  Texts(MaxLen) \cup LineTexts(MaxLines) \cup
  {ScenarioA, TrailingSpaceItem, NestedDiagram}

InitExtract ==
  /\ apiKey = "sk-key"
  /\ maxRetries = 1
  /\ pc = "extract"
  /\ caller = "none"
  /\ repoInfo = [type |-> "undefined"]
  /\ githubRequests = 0
  /\ requests = 0
  /\ responses2xx = 0
  /\ attempt = 0
  /\ timers = {}
  /\ inflight = {}
  /\ sleeps = <<>>
  /\ lastError = None
  /\ caught = None
  /\ controllerError = None
  /\ data = None
  /\ result = None
  /\ rendered = None
  /\ rawText \in ExtractionTexts
  /\ parsed = None
  /\ formatted = None
  /\ githubStatus = None
  /\ promptLog = <<>>
  /\ inv = <<>>

ParseStep ==
  /\ pc = "extract"
  /\ parsed = None
  /\ parsed' = Some(parseAIResponse(Body("content", rawText)))
  /\ UNCHANGED <<config, pc, caller, repoInfo, githubRequests, requests,
                 responses2xx, attempt, timers, inflight, sleeps, lastError,
                 data, outcome, page, rawText, formatted, githubStatus, aside>>

FormatStep ==
  /\ pc = "extract"
  /\ parsed # None
  /\ formatted = None
  /\ formatted' = Some(formatAnalysisResults(parsed[1]))
  /\ UNCHANGED <<config, pc, caller, repoInfo, githubRequests, requests,
                 responses2xx, attempt, timers, inflight, sleeps, lastError,
                 data, outcome, page, rawText, parsed, githubStatus, aside>>

NextExtract ==
  \/ ParseStep
  \/ FormatStep

SpecExtract == InitExtract /\ [][NextExtract]_vars

\* ==================================================================
\* PromptBuilder: buildAnalysisPrompt called repeatedly on one service,
\* between constructions with another environment and between analyses
\* that ended one way or another.
\* ==================================================================
\* A field of the metadata object: <<>> when absent, null or empty.
Field(info, name) ==
  IF name \in DOMAIN info THEN info[name] ELSE <<>>

\* JavaScript a || b on strings.
OrElse(a, b) == IF a # <<>> THEN a ELSE b

formatRepoMetadata(info) ==
  <<"Nom: ">> \o OrElse(Field(info, "name"), <<"Non spécifié">>) \o <<NL>> \o
  <<"Description: ">> \o
    OrElse(Field(info, "description"), <<"Aucune description">>) \o <<NL>> \o
  <<"Langage principal: ">> \o
    OrElse(Field(info, "language"), <<"Inconnu">>) \o <<NL>> \o
  <<"URL: ">> \o OrElse(Field(info, "html_url"), <<"Non disponible">>)

\* The fixed requirements text, one lexeme per section.
getArchitectureRequirements ==
  <<"## Analyse structurelle", NL, "## Diagramme visuel", NL,
    "## Résumé technique">>

getResponseFormat ==
  <<HF, NL, DO, NL, "<!-- Diagramme HTML/CSS ici -->", NL, DC, NL, FENCE, NL,
    NL, TF, NL, "// Résumé technique ici", NL, FENCE>>

PromptHead ==
  <<"Tu es un architecte logiciel expert.", NL, NL,
    "Analyse le dépôt GitHub suivant et génère :", NL,
    "1. Un résumé technique concis", NL,
    "2. Un diagramme d architecture HTML/CSS détaillé", NL, NL,
    "--- INFORMATIONS DU DÉPÔT ---", NL>>

\* A builder that quotes the failure of the previous analysis.
buildAnalysisPromptWithHistory(info) ==
  PromptHead \o formatRepoMetadata(info) \o
  <<NL, NL, "--- EXIGENCES ---", NL>> \o getArchitectureRequirements \o
  <<NL, NL, "--- FORMAT REQUIS ---", NL>> \o getResponseFormat \o
  (IF lastError # None THEN lastError[1] ELSE <<>>)

buildAnalysisPrompt(info) ==
  PromptHead \o formatRepoMetadata(info) \o
  <<NL, NL, "--- EXIGENCES ---", NL>> \o getArchitectureRequirements \o
  <<NL, NL, "--- FORMAT REQUIS ---", NL>> \o getResponseFormat

\* Metadata objects handed to the builder: what formatRepoData returns, the
\* direct caller's object, and an object with no field set.
PromptMetas ==
  {formatRepoData(doc) : doc \in {d \in GitHubData : d.hasOwner}} \cup
  {m \in MetadataArgs : m.type = "object"} \cup
  {[type |-> "object"]}

\* How the analysis before a call ended: not at all, well, or with an error.
PromptOutcomes == {None, Some(ErrTransport), Some(ErrInvalidFormat)}

InitPrompt ==
  /\ apiKey \in ApiKeys
  /\ maxRetries \in 1..MaxRetriesBound
  /\ pc = "prompt"
  /\ caller = "none"
  /\ repoInfo = [type |-> "undefined"]
  /\ githubRequests = 0
  /\ requests = 0
  /\ responses2xx = 0
  /\ attempt = 0
  /\ timers = {}
  /\ inflight = {}
  /\ sleeps = <<>>
  /\ lastError = None
  /\ caught = None
  /\ controllerError = None
  /\ data = None
  /\ result = None
  /\ rendered = <<>>
  /\ rawText = <<>>
  /\ parsed = None
  /\ formatted = None
  /\ githubStatus = None
  /\ promptLog = <<>>
  /\ inv = <<>>

\* The service is constructed again from another environment.
Construct ==
  /\ pc = "prompt"
  /\ apiKey' \in ApiKeys
  /\ maxRetries' \in 1..MaxRetriesBound
  /\ UNCHANGED <<pc, caller, repoInfo, githubRequests, requests, responses2xx,
                 attempt, timers, inflight, sleeps, lastError, data, outcome,
                 page, extraction, githubStatus, aside>>

\* An analysis ends, leaving its last failure (or none) behind.
AnalysisEnds ==
  /\ pc = "prompt"
  /\ lastError' \in PromptOutcomes
  /\ UNCHANGED <<config, pc, caller, repoInfo, githubRequests, requests,
                 responses2xx, attempt, timers, inflight, sleeps, data, outcome,
                 page, extraction, githubStatus, aside>>

\* One call of buildAnalysisPrompt, logged with the state it was made in.
BuildPrompt ==
  /\ pc = "prompt"
  /\ Len(promptLog) < MaxPromptCalls
  /\ \E meta \in PromptMetas :
       promptLog' = Append(promptLog,
         [meta |-> meta, prompt |-> buildAnalysisPrompt(meta),
          apiKey |-> apiKey, previous |-> lastError])
  /\ UNCHANGED <<config, pc, caller, repoInfo, githubRequests, requests,
                 responses2xx, attempt, timers, inflight, sleeps, lastError,
                 data, outcome, page, extraction, githubStatus, inv>>

NextPrompt ==
  \/ Construct
  \/ AnalysisEnds
  \/ BuildPrompt

SpecPrompt == InitPrompt /\ [][NextPrompt]_vars

\* ==================================================================
\* Concurrent invocations of analyzeRepository on the one exported service.
\* Each invocation keeps its locals (the attempt parameter, its abort
\* timers, its response) in inv[i]; apiKey and maxRetries are the fields of
\* the shared object, which no method assigns.
\* ==================================================================
Invocations == {1, 2}

ConcStatuses == {200, 500}

ConcBodies == {Body("content", <<CH>>), Body("noChoices", <<>>)}

\* The variables of the single-request specifications.
single ==
  <<pc, caller, repoInfo, githubRequests, requests, responses2xx, attempt,
    timers, inflight, sleeps, lastError, data, outcome, page, extraction,
    githubStatus, promptLog>>

IdleInvocation ==
  [pc |-> "idle", meta |-> [type |-> "undefined"], attempt |-> 0,
   requests |-> 0, timers |-> {}, failures |-> 0, last |-> None,
   data |-> None,
   caught |-> None, result |-> None]

InitConc ==
  /\ apiKey \in ApiKeys
  /\ maxRetries \in 1..MaxRetriesBound
  /\ pc = "concurrent"
  /\ caller = "none"
  /\ repoInfo = [type |-> "undefined"]
  /\ githubRequests = 0
  /\ requests = 0
  /\ responses2xx = 0
  /\ attempt = 0
  /\ timers = {}
  /\ inflight = {}
  /\ sleeps = <<>>
  /\ lastError = None
  /\ caught = None
  /\ controllerError = None
  /\ data = None
  /\ result = None
  /\ rendered = <<>>
  /\ rawText = <<>>
  /\ parsed = None
  /\ formatted = None
  /\ githubStatus = None
  /\ promptLog = <<>>
  /\ inv = [i \in Invocations |-> IdleInvocation]

\* The attempt number kept in a field of the shared service: a write by one
\* invocation is seen by all.
WithAttemptShared(st, i, n) ==
  [j \in DOMAIN st |-> [st[j] EXCEPT !.attempt = n]]

\* The attempt number is a parameter of fetchWithRetry: a write by
\* invocation i is a new activation of i alone.
WithAttempt(st, i, n) == [st EXCEPT ![i].attempt = n]

\* analyzeRepository's catch block, for one invocation.
ConcFallback(st, error) ==
  [st EXCEPT !.pc = "analyzed",
             !.caught = Some(error),
             !.result = Some(generateFallbackResponse(error))]

\* fetchWithRetry's catch block, for one invocation.
ConcRetryCatch(st, error) ==
  IF st.attempt >= maxRetries
    THEN ConcFallback(
           [st EXCEPT !.failures = @ + 1, !.last = Some(error)], error)
    ELSE [st EXCEPT !.pc = "sleeping", !.failures = @ + 1,
                    !.last = Some(error)]

\* One attempt of invocation i up to its await of fetch.
ConcStartAttempt(st, i, n) ==
  WithAttempt(
    [st EXCEPT ![i].pc = "awaitFetch",
               ![i].requests = @ + 1,
               ![i].timers = @ \cup {n}], i, n)

ConcCall(i) ==
  /\ inv[i].pc = "idle"
  /\ \E meta \in MetadataArgs :
       LET st == [inv EXCEPT ![i].meta = meta]
       IN inv' =
            IF apiKey = NoKey
              THEN [st EXCEPT ![i] = ConcFallback(@, ErrNoKey)]
            ELSE IF meta.type # "object"
              THEN [st EXCEPT ![i] = ConcFallback(@, ErrInvalidRepo)]
            ELSE ConcStartAttempt(st, i, 1)
  /\ UNCHANGED <<config, single>>

ConcFetchResolve(i) ==
  /\ inv[i].pc = "awaitFetch"
  /\ \E status \in ConcStatuses :
       LET st == [inv[i] EXCEPT !.timers = @ \ {inv[i].attempt}]
       IN inv' = [inv EXCEPT ![i] =
            IF status >= 200 /\ status <= 299
              THEN [st EXCEPT !.pc = "awaitBody"]
              ELSE ConcRetryCatch(st, ErrStatus(status))]
  /\ UNCHANGED <<config, single>>

ConcFetchReject(i) ==
  /\ inv[i].pc = "awaitFetch"
  /\ inv' = [inv EXCEPT ![i] = ConcRetryCatch(@, ErrTransport)]
  /\ UNCHANGED <<config, single>>

ConcTimerFire(i) ==
  /\ \E n \in inv[i].timers :
       LET st == [inv[i] EXCEPT !.timers = @ \ {n}]
       IN inv' = [inv EXCEPT ![i] =
            IF st.pc = "awaitFetch" /\ st.attempt = n
              THEN ConcRetryCatch(st, ErrAborted)
              ELSE st]
  /\ UNCHANGED <<config, single>>

ConcBodyResolve(i) ==
  /\ inv[i].pc = "awaitBody"
  /\ \E body \in ConcBodies :
       LET st == [inv[i] EXCEPT !.data = Some(body)]
       IN inv' = [inv EXCEPT ![i] =
            IF parseAIResponseError(body) # None
              THEN ConcRetryCatch(st, parseAIResponseError(body)[1])
              ELSE [st EXCEPT
                      !.pc = "analyzed",
                      !.last = Some(<<"ok">>),
                      !.result =
                        Some(formatAnalysisResults(parseAIResponse(body)))]]
  /\ UNCHANGED <<config, single>>

ConcBodyReject(i) ==
  /\ inv[i].pc = "awaitBody"
  /\ inv' = [inv EXCEPT ![i] = ConcRetryCatch(@, ErrInvalidJson)]
  /\ UNCHANGED <<config, single>>

ConcSleepDone(i) ==
  /\ inv[i].pc = "sleeping"
  /\ inv' = ConcStartAttempt(inv, i, inv[i].attempt + 1)
  /\ UNCHANGED <<config, single>>

NextConc ==
  \E i \in Invocations :
    \/ ConcCall(i)
    \/ ConcFetchResolve(i)
    \/ ConcFetchReject(i)
    \/ ConcTimerFire(i)
    \/ ConcBodyResolve(i)
    \/ ConcBodyReject(i)
    \/ ConcSleepDone(i)

SpecConc == InitConc /\ [][NextConc]_vars

\* ==================================================================
\* Properties
\* ==================================================================
\* analyzeRepository has returned (to the controller or the direct caller).
AnalyzeEnded == pc = "analyzed" \/ (pc = "done" /\ controllerError = None)

IsOk(status) == status >= 200 /\ status <= 299

\* The errors of an attempt that got no 2xx response.
NetworkErrors ==
  {ErrTransport, ErrAborted} \cup {ErrStatus(st) : st \in {x \in Statuses : ~IsOk(x)}}

\* C1: analyzeRepository never throws or rejects; whatever the metadata
\* argument and whatever fails, it returns an object whose summary,
\* htmlSchema, recommendations and diagramSource are set, with a non-empty
\* htmlSchema.  (pc = "rejected" is the returned promise rejecting.)
C1_TotalFallback ==
  /\ pc # "rejected"
  /\ AnalyzeEnded =>
       /\ result # None
       /\ {"summary", "htmlSchema", "recommendations", "diagramSource"}
            \subseteq DOMAIN result[1]
       /\ result[1].htmlSchema # <<>>

\* analyzeRepository(null) with a credential configured has returned.
C1_Witness ==
  /\ pc = "done"
  /\ caller = "direct"
  /\ apiKey # NoKey
  /\ repoInfo.type = "null"
  /\ caught = Some(ErrInvalidRepo)
  /\ result # None
  /\ result[1].htmlSchema # <<>>

\* C2: when no attempt gets a 2xx response, fetchWithRetry issues exactly
\* maxRetries requests, sleeping between them, then throws the last network
\* error to its caller; it never issues more than maxRetries requests.
C2_BoundedRetries ==
  /\ requests <= maxRetries
  /\ (AnalyzeEnded /\ requests > 0 /\ responses2xx = 0) =>
       /\ requests = maxRetries
       /\ attempt = maxRetries
       /\ Len(sleeps) = maxRetries - 1
       /\ lastError # None
       /\ lastError[1] \in NetworkErrors
       /\ caught = lastError

\* Three attempts, all without a 2xx response, the last one aborted by its
\* timer.
C2_Witness ==
  /\ pc = "analyzed"
  /\ maxRetries = 3
  /\ requests = 3
  /\ responses2xx = 0
  /\ caught = Some(ErrAborted)

\* C3: without an API credential analyzeRepository fails with the
\* configuration error before any completion request: no request, no abort
\* timer, no backoff sleep, and the fallback result for that error.
C3_NoKeyNoNetwork ==
  apiKey = NoKey =>
    /\ requests = 0
    /\ attempt = 0
    /\ timers = {}
    /\ inflight = {}
    /\ sleeps = <<>>
    /\ AnalyzeEnded =>
         /\ caught = Some(ErrNoKey)
         /\ result = Some(generateFallbackResponse(ErrNoKey))

\* The controller has rendered the fallback of a run without a credential.
C3_Witness ==
  /\ apiKey = NoKey
  /\ pc = "done"
  /\ caller = "controller"
  /\ repoInfo.type = "object"
  /\ rendered # None
  /\ caught = Some(ErrNoKey)

\* A 2xx body without non-empty assistant message content.
NoContent(body) ==
  body.kind = "noChoices" \/ (body.kind = "content" /\ body.content = <<>>)

\* C4 as claimed: once an attempt has received a 2xx response without
\* assistant message content, the sequence has ended with that failure and no
\* further request is issued.
C4_MalformedNotRetried ==
  (data # None /\ NoContent(data[1])) =>
    /\ AnalyzeEnded
    /\ caught = Some(ErrInvalidFormat)

\* C4 as amended: a 2xx response without assistant message content is retried
\* like any other failed attempt: with attempts left the client sleeps
\* retryDelay x attempt and issues the next request; the sequence ends in
\* failure only once maxRetries requests have been issued, and with the
\* MalformedResponse failure when that was the last attempt's error.
C4_MalformedRetried ==
  (data # None /\ NoContent(data[1])) =>
    \/ /\ pc = "sleeping"
       /\ attempt < maxRetries
       /\ sleeps # <<>>
       /\ sleeps[Len(sleeps)] = RETRY_DELAY * attempt
       /\ result = None
    \/ /\ pc \in {"awaitFetch", "awaitBody"}
       /\ attempt >= 2
       /\ requests = attempt
       /\ result = None
    \/ /\ AnalyzeEnded
       /\ requests = maxRetries
       /\ caught # None
       /\ caught = lastError
       /\ (caught = Some(ErrInvalidFormat)
             => result = Some(generateFallbackResponse(ErrInvalidFormat)))

\* The second request is outstanding after the first got a body without
\* content.
C4_Witness ==
  /\ pc = "awaitFetch"
  /\ attempt = 2
  /\ requests = 2
  /\ lastError = Some(ErrInvalidFormat)
  /\ data # None
  /\ data[1].kind = "noChoices"

\* C5 as claimed: diagramSource is true iff htmlSchema wraps a diagram
\* extracted from the response.
C5_DiagramSourceIff ==
  AnalyzeEnded =>
    (result[1].diagramSource <=> result[1].htmlSchema[1] = WrapOpen)

\* C6: on every failure inside analyzeRepository the result is the fallback:
\* summary "Analysis failed: " + message, the fallback panel with the
\* message, the fixed triad in order, diagramSource false; and a result
\* without rawAnalysis is returned only on a failure.
C6_FallbackShape ==
  /\ caught # None =>
       result = Some([summary |-> <<"Analysis failed: ">> \o caught[1],
                      htmlSchema |-> <<"<div class=\"diagram-fallback\">">>
                                       \o caught[1] \o <<"</div>">>,
                      recommendations |->
                        << <<"Verify API configuration">>,
                           <<"Check repository accessibility">>,
                           <<"Retry analysis later">> >>,
                      diagramSource |-> FALSE])
  /\ AnalyzeEnded => (caught # None <=> "rawAnalysis" \notin DOMAIN result[1])

\* The retry budget ended on a content that is not a string (the extraction
\* threw).
C6_Witness ==
  /\ pc = "analyzed"
  /\ requests = maxRetries
  /\ maxRetries >= 2
  /\ caught = Some(ErrNotString)

\* What the presentation layer got after a failed metadata fetch.
MetadataFailed == controllerError # None /\ rendered # None

HasHeading(text) == \E i \in 1..Len(text) : text[i] = RW

\* C8: a rawText without the heading the code searches for
\* (/Recommandations?/i) yields exactly the three default recommendations,
\* with or without a diagram or a text block; and summary and recommendations
\* are those of rawText whether the diagram is null or not.
C8_ExtractionIndependence ==
  formatted # None =>
    /\ ~HasHeading(rawText) =>
         formatted[1].recommendations =
           << <<"Documentation: Ajouter des commentaires pour les fonctions principales">>,
              <<"Tests: Implémenter des tests unitaires pour les modules critiques">>,
              <<"Optimisation: Analyser les performances des composants clés">> >>
    /\ formatted[1].recommendations = extractRecommendations(rawText)
    /\ formatted[1].summary = extractTextSummary(rawText)

\* A rawText with no heading, no diagram and a text block, formatted.
C8_Witness ==
  /\ formatted # None
  /\ ~HasHeading(rawText)
  /\ parsed[1].diagram = None
  /\ \E i \in 1..Len(rawText) : rawText[i] = TF
  /\ formatted[1].recommendations = getDefaultRecommendations

\* C9: every recommendations sequence returned or rendered has at most 3
\* elements.
C9_RecommendationCap ==
  /\ result # None => Len(result[1].recommendations) <= 3
  /\ rendered # None => Len(rendered[1].analysis.recommendations) <= 3

\* A page rendered from a response that lists four recommendations.
C9_Witness ==
  /\ rendered # None
  /\ data # None
  /\ data[1].content = HeadingWithItems(4)
  /\ Len(rendered[1].analysis.recommendations) = 3

WellFormed(body) == body.kind = "content" /\ body.content # <<>>

\* C10: when the last body received is well formed, the sequence ended there:
\* the requests issued are exactly the attempts made (k), one backoff sleep
\* between consecutive attempts, and the result is built from that body, not
\* the failure fallback.
C10_SuccessOnKth ==
  (data # None /\ WellFormed(data[1])) =>
    /\ AnalyzeEnded
    /\ requests = attempt
    /\ Len(sleeps) = attempt - 1
    /\ caught = None
    /\ "rawAnalysis" \in DOMAIN result[1]
    /\ result[1].rawAnalysis = data[1].content
    /\ result[1].summary = extractTextSummary(data[1].content)
    /\ result[1].recommendations = extractRecommendations(data[1].content)
    /\ result[1].htmlSchema = wrapDiagram(extractHtmlContent(data[1].content))

\* Scenario C: success on the 2nd of 3 allowed attempts, after a failure
\* without a 2xx response.
C10_Witness ==
  /\ pc = "done"
  /\ maxRetries = 3
  /\ attempt = 2
  /\ requests = 2
  /\ responses2xx = 1
  /\ caught = None
  /\ data # None
  /\ data[1].content = ScenarioA

\* C11: getRepoInfo issues exactly one request per call and never a second
\* one; an upstream 404 reaches the caller as the not-found error, a 403 as
\* the rate-limited error, every other status and a failure without a
\* response (status 0) as the generic upstream error.
C11_TypedErrorsNoRetry ==
  /\ githubRequests <= 1
  /\ caller = "controller" => githubRequests = 1
  /\ githubStatus = Some(404) => controllerError = Some(ErrNotFound)
  /\ githubStatus = Some(403) => controllerError = Some(ErrRateLimit)
  /\ \A status \in GitHubFailures \ {404, 403} :
       githubStatus = Some(status) => controllerError = Some(ErrGitHub)

C11_Witness ==
  /\ githubStatus = Some(403)
  /\ controllerError = Some(ErrRateLimit)
  /\ githubRequests = 1
  /\ pc = "done"

C13_SequentialLinearBackoff ==
  /\ Cardinality(inflight) <= 1
  /\ inflight \subseteq {attempt}
  /\ \A i \in 1..Len(sleeps) : sleeps[i] = RETRY_DELAY * i
  /\ pc \in {"awaitFetch", "awaitBody"} =>
       /\ inflight = {attempt}
       /\ requests = attempt
       /\ Len(sleeps) = attempt - 1
  /\ pc = "sleeping" =>
       /\ inflight = {}
       /\ lastError # None
       /\ requests = attempt
       /\ Len(sleeps) = attempt

C13_Witness ==
  /\ pc = "awaitFetch"
  /\ attempt = 3
  /\ requests = 3
  /\ sleeps = <<RETRY_DELAY, RETRY_DELAY * 2>>
  /\ inflight = {3}

\* C14: every analyzeRepository invocation eventually returns, even when the
\* upstream stalls at any point of an attempt: the abort timer bounds the
\* attempt while the response is awaited and while its body is read, so a
\* started sequence always reaches its end.
C14_EventuallyReturns ==
  (pc \in {"awaitFetch", "awaitBody", "sleeping"}) ~> AnalyzeEnded

\* C15: after every successful completion the result returned by
\* analyzeRepository is fully populated: its summary is a non-empty string
\* and its recommendations a non-empty list, also when the text holds an
\* empty text fenced block or a recommendations heading followed by a blank
\* line or by the end of the input.
C15_FullyPopulated ==
  (AnalyzeEnded /\ caught = None /\ result # None) =>
    /\ result[1].summary # <<>>
    /\ result[1].recommendations # <<>>

\* The extraction read line by line: the lines after the first line that
\* holds the heading word, up to the first empty line or the end of the
\* input.
LineHas(line, word) == \E i \in 1..Len(line) : line[i] = word

HeadingLine(lines, word) ==
  LET H == {k \in 1..Len(lines) : LineHas(lines[k], word)}
  IN IF H = {} THEN 0 ELSE CHOOSE k \in H : \A l \in H : k <= l

ItemLines(text, word) ==
  LET lines == Split(text)
      h == HeadingLine(lines, word)
      E == {k \in (h + 1)..Len(lines) : lines[k] = <<>>}
      stop == IF E = {} THEN Len(lines) + 1
              ELSE CHOOSE k \in E : \A l \in E : k <= l
  IN SubSeq(lines, h + 1, stop - 1)

\* r.replace(/^- /, empty) alone.
StripOnly(r) ==
  IF Len(r) >= 2 /\ r[1] = DASH /\ r[2] = SP THEN SubSeq(r, 3, Len(r)) ELSE r

\* C16 as stated: with the heading word Recommendations present, the
\* recommendations are the lines after the heading up to the first blank
\* line or the end of the input, empty lines dropped, a leading dash-space
\* stripped, the first 3 kept in order; the defaults are used only without
\* such a heading.
C16_EnglishHeading ==
  formatted # None =>
    formatted[1].recommendations =
      IF HeadingLine(Split(rawText), REN) = 0 THEN getDefaultRecommendations
      ELSE LET ls == FilterNonBlank(ItemLines(rawText, REN))
           IN Slice3([k \in 1..Len(ls) |-> StripOnly(ls[k])])

\* C16: with the heading word the code searches for (Recommandations, the
\* French spelling) present, the recommendations are the lines after the
\* heading line up to the first empty line or the end of the input,
\* whitespace-only lines dropped, a leading dash-space stripped and the rest
\* trimmed, the first 3 kept in order; the defaults are used exactly when
\* that word is absent, also when the English word Recommendations is
\* there.
C16_FrenchHeading ==
  formatted # None =>
    formatted[1].recommendations =
      IF HeadingLine(Split(rawText), RW) = 0 THEN getDefaultRecommendations
      ELSE LET ls == FilterNonBlank(ItemLines(rawText, RW))
           IN Slice3([k \in 1..Len(ls) |-> Trim(StripOnly(ls[k]))])

\* A heading, one item, an empty line and a further line: the item alone is
\* returned.
C16_Witness ==
  /\ formatted # None
  /\ rawText = <<RW, NL, DASH, SP, CH, NL, NL, CH>>
  /\ formatted[1].recommendations = << <<CH>> >>

\* Lexemes that begin with the fence delimiter.
Fences == {HF, TF, FENCE}

\* text[i] opens the first text fenced block and text[j] closes it.
TextBlock(text, i, j) ==
  /\ i \in 1..Len(text) /\ j \in 1..Len(text) /\ i < j
  /\ text[i] = TF
  /\ \A k \in 1..(i - 1) : text[k] # TF
  /\ text[j] \in Fences
  /\ \A k \in (i + 1)..(j - 1) : text[k] \notin Fences

\* The text before the first line break (all of it when there is none).
FirstLine(text) ==
  LET B == {k \in 1..Len(text) : text[k] = NL}
  IN IF B = {} THEN text
     ELSE SubSeq(text, 1, (CHOOSE k \in B : \A l \in B : k <= l) - 1)

\* C17 as stated: the trimmed interior of the first text fenced block if
\* there is one, otherwise the first line of rawText, and the literal
\* Technical summary only when rawText is empty.
C17_LiteralOnlyWhenEmpty ==
  parsed # None =>
    /\ \A i, j \in 1..Len(rawText) :
         TextBlock(rawText, i, j) =>
           parsed[1].summary = Trim(SubSeq(rawText, i + 1, j - 1))
    /\ (~\E i, j \in 1..Len(rawText) : TextBlock(rawText, i, j)) =>
         parsed[1].summary =
           IF rawText = <<>> THEN <<"Technical summary">> ELSE FirstLine(rawText)

\* C17: the summary is the trimmed interior of the first text fenced block
\* if there is one; otherwise it is the first line of rawText when that line
\* is not empty, and the literal Technical summary when it is empty, that
\* is, when rawText is empty or begins with a line break.
C17_LiteralWhenFirstLineEmpty ==
  parsed # None =>
    /\ \A i, j \in 1..Len(rawText) :
         TextBlock(rawText, i, j) =>
           parsed[1].summary = Trim(SubSeq(rawText, i + 1, j - 1))
    /\ (~\E i, j \in 1..Len(rawText) : TextBlock(rawText, i, j)) =>
         parsed[1].summary =
           IF FirstLine(rawText) = <<>> THEN <<"Technical summary">>
           ELSE FirstLine(rawText)

\* A non-empty rawText that begins with a line break gets the literal.
C17_Witness ==
  /\ parsed # None
  /\ Len(rawText) > 1
  /\ rawText[1] = NL
  /\ ~\E i, j \in 1..Len(rawText) : TextBlock(rawText, i, j)
  /\ parsed[1].summary = <<"Technical summary">>

\* text[i] opens the first html fenced block and text[j] closes it.
HtmlBlock(text, i, j) ==
  /\ i \in 1..Len(text) /\ j \in 1..Len(text) /\ i < j
  /\ text[i] = HF
  /\ \A k \in 1..(i - 1) : text[k] # HF
  /\ text[j] \in Fences
  /\ \A k \in (i + 1)..(j - 1) : text[k] \notin Fences

\* Opening tags minus closing tags of div elements in text[i..k].
Balance(text, i, k) ==
  Cardinality({m \in i..k : text[m] \in {DO, DI}}) -
  Cardinality({m \in i..k : text[m] = DC})

\* text[i] is the opening tag of an architecture-diagram element and
\* text[j] its closing tag.
Element(text, i, j) ==
  /\ i \in 1..Len(text) /\ j \in 1..Len(text) /\ i < j
  /\ text[i] = DO
  /\ text[j] = DC
  /\ Balance(text, i, j) = 0
  /\ \A k \in i..(j - 1) : Balance(text, i, k) > 0

\* C18: the diagram is the trimmed interior of the first html fenced block
\* if there is one; otherwise the first architecture-diagram element of
\* rawText, from its opening tag to its closing tag, if there is one; and
\* null when rawText holds neither a fenced html block nor such an opening
\* tag.
C18_DiagramPriority ==
  parsed # None =>
    LET fenced == \E i, j \in 1..Len(rawText) : HtmlBlock(rawText, i, j)
    IN /\ \A i, j \in 1..Len(rawText) :
            HtmlBlock(rawText, i, j) =>
              parsed[1].diagram = Some(Trim(SubSeq(rawText, i + 1, j - 1)))
       /\ ~fenced =>
            \A i, j \in 1..Len(rawText) :
              (/\ Element(rawText, i, j)
               /\ \A k, l \in 1..Len(rawText) : Element(rawText, k, l) => i <= k)
                => parsed[1].diagram = Some(SubSeq(rawText, i, j))
       /\ (~fenced /\ \A i \in 1..Len(rawText) : rawText[i] # DO) =>
            parsed[1].diagram = None

\* C19: an inbound inspect request runs its stages in order without fan-out:
\* exactly one metadata request is issued, and first; completion requests
\* are issued only once it has resolved with a usable document; when it
\* fails no completion request is issued; nothing is rendered before the
\* request ends and exactly one page has been rendered when it has ended,
\* whichever stage failed.
C19_StagesInOrder ==
  caller = "controller" =>
    /\ githubRequests = 1
    /\ pc = "awaitGitHub" => (requests = 0 /\ githubStatus = None)
    /\ requests > 0 =>
         /\ githubStatus = Some(200)
         /\ repoInfo.type = "object"
         /\ controllerError = None
    /\ controllerError # None => requests = 0
    /\ pc # "done" => rendered = <<>>
    /\ pc = "done" => Len(rendered) = 1

\* A request whose metadata fetch succeeded and whose completion took two
\* attempts, ended.
C19_Witness ==
  /\ caller = "controller"
  /\ pc = "done"
  /\ githubRequests = 1
  /\ requests = 2
  /\ Len(rendered) = 1

\* The result analyzeRepository owes to an invocation with metadata meta
\* whose own last request ended as last (an error, or ok with body body).
ExpectedResult(meta, last, body) ==
  IF apiKey = NoKey THEN generateFallbackResponse(ErrNoKey)
  ELSE IF meta.type # "object" THEN generateFallbackResponse(ErrInvalidRepo)
  ELSE IF last = <<"ok">>
    THEN formatAnalysisResults(parseAIResponse(body[1]))
  ELSE generateFallbackResponse(last)

\* C20: concurrent invocations do not interfere: under every interleaving
\* each invocation has issued one request per failure of its own, plus the
\* one that succeeded or is pending, and never more than maxRetries; it
\* sleeps only with attempts of its own left, gives up only on its own
\* maxRetries-th failure, and returns the result that its own metadata and
\* the outcome of its own last request determine.
C20_NoInterference ==
  \A i \in Invocations :
    LET st == inv[i]
        pending == IF st.pc \in {"awaitFetch", "awaitBody"} THEN 1 ELSE 0
        ok == IF st.last = Some(<<"ok">>) THEN 1 ELSE 0
    IN /\ st.requests = st.failures + ok + pending
       /\ st.requests <= maxRetries
       /\ st.requests > 0 => st.attempt = st.requests
       /\ st.pc = "sleeping" => st.failures < maxRetries
       /\ st.pc = "analyzed" =>
            /\ st.result = Some(ExpectedResult(st.meta, st.last[1], st.data))
            /\ st.requests > 0 => (ok = 1 \/ st.failures = maxRetries)

\* Both invocations were in flight together; one failed on every attempt
\* while the other succeeded on its second.
C20_Witness ==
  /\ maxRetries = 3
  /\ inv[1].pc = "analyzed" /\ inv[1].caught # None /\ inv[1].requests = 3
  /\ inv[2].pc = "analyzed" /\ inv[2].caught = None /\ inv[2].requests = 2

\* The lexeme that follows label in prompt: the value shown for that field.
ShownAfter(prompt, label) ==
  LET K == {k \in 1..(Len(prompt) - 1) : prompt[k] = label}
  IN prompt[(CHOOSE k \in K : \A l \in K : k <= l) + 1]

\* The value of a field, or the placeholder when the field is absent.
ValueOr(field, placeholder) ==
  IF field # <<>> THEN field[1] ELSE placeholder

\* C21: the prompt built from a metadata object returned by formatRepoData
\* shows the actual name, description, primary language and repository URL
\* of that object for every field it holds, and a placeholder only for a
\* field it does not hold.
C21_PromptCarriesMetadata ==
  \A n \in 1..Len(promptLog) :
    LET meta == promptLog[n].meta
        prompt == promptLog[n].prompt
    IN "url" \in DOMAIN meta =>
         /\ ShownAfter(prompt, "Nom: ") = ValueOr(meta.name, "Non spécifié")
         /\ ShownAfter(prompt, "Description: ") =
              ValueOr(meta.description, "Aucune description")
         /\ ShownAfter(prompt, "Langage principal: ") =
              ValueOr(meta.language, "Inconnu")
         /\ ShownAfter(prompt, "URL: ") = ValueOr(meta.url, "Non disponible")

\* C22: every abort timer armed by fetchWithRetry is disarmed when its
\* attempt ends, however it ends: an armed timer always belongs to an
\* attempt that is still in flight, and once analyzeRepository has returned
\* no timer is armed.
C22_TimersDisarmed ==
  /\ timers \subseteq inflight
  /\ AnalyzeEnded => timers = {}

====
